---------------------------- MODULE Spec2Model ----------------------------
(***************************************************************************)
(* Operational-hours service: the periodic job (main.py) and the           *)
(* historical backfill (runonce.py).                                       *)
(*                                                                         *)
(* Python values are modelled as follows.                                  *)
(*   - an optional value (None or x) is the sequence <<>> or <<x>>;        *)
(*   - the outcome of a call is a record [exc, val]: exc = "" when the     *)
(*     call returned val, otherwise the name of the exception it raised;   *)
(*   - a timestamp is a number of seconds since midnight of day 0, its     *)
(*     calendar date is the day number (timestamp \div 86400);             *)
(*   - a sensor value is an integer (the float, on a fixed scale);         *)
(*   - a non-integer duration (hours of runonce.py) is an exact fraction.  *)
(***************************************************************************)
EXTENDS Integers, Sequences, FiniteSets, TLC

\* ------------------------------------------------------------------ bounds
\* Most channel entries in one sensor_readings payload.
MaxItems == 2
\* Most rows in one fetched frame of device_readings.
MaxLen == 3
\* Most passes over the registry (periodic and historical together) in one behaviour.
MaxRuns == 2

None == <<>>
Some(x) == <<x>>

Returned(v) == [exc |-> "", val |-> v]
Raised(e) == [exc |-> e, val |-> None]

\* ------------------------------------------------- sensor_readings payloads
\* The "value" of one channel entry, by what float() makes of it.
\*   absent/null : the key is missing or null  -> .get gives None, float(None) is a TypeError
\*   num         : a JSON number               -> its float
\*   numtext     : text such as "2"            -> its float
\*   text        : text such as "abc"          -> ValueError
\*   list        : a JSON array or object      -> TypeError
\*   bigint      : an integer beyond the float range -> OverflowError
ValueKinds == {"null", "num", "numtext", "text", "list", "bigint"}
SampleNumbers == {-2, 2}
RawValues ==
    [kind : {"num", "numtext"}, n : SampleNumbers]
        \cup [kind : ValueKinds \ {"num", "numtext"}, n : {0}]

\* The sensor ids the registry uses (main.py:22-33) that the payloads carry.
SampleSensorIds == {1, 6}

\* One element of the payload's list: a dict, with or without a "sensor_id"
\* key, or something that is no dict (a number, text, null, a list).
Entries ==
    [kind : {"dict"}, sensor_id : {None} \cup {Some(s) : s \in SampleSensorIds},
     value : RawValues]
        \cup [kind : {"nondict"}, sensor_id : {None}, value : {[kind |-> "null", n |-> 0]}]

SeqsUpTo(S, n) == UNION {[1..k -> S] : k \in 0..n}

\* A decoded JSON document: a list of entries, or a document of another type.
\*   null, num  : not iterable
\*   text, dict : iterable, yielding str elements (characters, keys);
\*                size is the number of elements
Documents(S) ==
    [kind : {"list"}, items : S, size : {0}]
        \cup [kind : {"null", "num"}, items : {<<>>}, size : {0}]
        \cup [kind : {"text", "dict"}, items : {<<>>}, size : {0, 1}]

\* What the sensor_readings column holds: an already decoded document
\* (json/jsonb column), or a str, which is the text of a document or is
\* no JSON at all.
Payloads(S) ==
    [form : {"object"}, valid : {TRUE}, doc : Documents(S)]
        \cup [form : {"str"}, valid : BOOLEAN, doc : Documents(S)]

\* ------------------------------------------------ extract_sensor_value_by_id
\* json.loads: the document of a valid text, JSONDecodeError otherwise.
json_loads(payload) ==
    IF payload.valid THEN Returned(payload.doc) ELSE Raised("JSONDecodeError")

\* float(value)
py_float(value) ==
    CASE value.kind \in {"num", "numtext"} -> Returned(value.n)
      [] value.kind = "text" -> Raised("ValueError")
      [] value.kind = "bigint" -> Raised("OverflowError")
      [] OTHER -> Raised("TypeError")

\* The inner try: return float(value), except (ValueError, TypeError): return None.
convert_value(value) ==
    LET r == py_float(value)
    IN  IF r.exc \in {"ValueError", "TypeError"} THEN Returned(None)
        ELSE IF r.exc = "" THEN Returned(Some(r.val))
        ELSE r

\* The for loop over a list, from element i on: the first entry whose
\* sensor_id matches decides; an entry that is no dict has no .get.
RECURSIVE scan_readings(_, _, _)
scan_readings(items, sensor_id, i) ==
    IF i > Len(items) THEN Returned(None)
    ELSE IF items[i].kind # "dict" THEN Raised("AttributeError")
    ELSE IF items[i].sensor_id = Some(sensor_id) THEN convert_value(items[i].value)
    ELSE scan_readings(items, sensor_id, i + 1)

\* for reading in readings: ...; return None
iterate_readings(doc, sensor_id) ==
    CASE doc.kind = "list" -> scan_readings(doc.items, sensor_id, 1)
      [] doc.kind \in {"text", "dict"} ->
            IF doc.size > 0 THEN Raised("AttributeError") ELSE Returned(None)
      [] OTHER -> Raised("TypeError")

\* The body of the outer try.
extract_body(payload, sensor_id) ==
    LET readings == IF payload.form = "str" THEN json_loads(payload)
                    ELSE Returned(payload.doc)
    IN  IF readings.exc # "" THEN readings
        ELSE iterate_readings(readings.val, sensor_id)

\* except (json.JSONDecodeError, AttributeError, KeyError): return None
CaughtByExtract == {"JSONDecodeError", "AttributeError", "KeyError"}

extract_sensor_value_by_id(payload, sensor_id) ==
    LET r == extract_body(payload, sensor_id)
    IN  IF r.exc \in CaughtByExtract THEN Returned(None) ELSE r

\* ------------------------------------------------------------ frames, time
\* A frame is the DataFrame a fetch returns: a sequence of rows
\* [time, sensor_readings], ordered by time (ORDER BY time).
SecondsPerDay == 86400
\* .dt.date / .date(): the calendar date of a timestamp
DateOf(t) == t \div SecondsPerDay

IsSortedByTime(frame) ==
    \A i \in 1..(Len(frame) - 1) : frame[i].time <= frame[i + 1].time

IsStrictlySortedByTime(frame) ==
    \A i \in 1..(Len(frame) - 1) : frame[i].time < frame[i + 1].time

\* sort_values('time'): the default sort (quicksort) is not stable, so rows
\* with equal times may come out in any order.  An order is the sequence of
\* row positions, first row of the sorted frame first: any permutation that
\* puts the times in ascending order (the only one, for a frame whose times
\* already ascend strictly, leaves the rows where they are).
SortOrders(frame) ==
    IF IsStrictlySortedByTime(frame) THEN {[k \in 1..Len(frame) |-> k]}
    ELSE {o \in [1..Len(frame) -> 1..Len(frame)] :
            /\ \A i, j \in 1..Len(frame) : i # j => o[i] # o[j]
            /\ \A i \in 1..(Len(frame) - 1) : frame[o[i]].time <= frame[o[i + 1]].time}

\* The column of sensor values: extract_sensor_value_by_id on every row, in
\* row order; the first exception ends the loop and leaves the function.
RECURSIVE extract_column(_, _, _)
extract_column(frame, sensor_id, i) ==
    IF i > Len(frame) THEN Returned(<<>>)
    ELSE LET v == extract_sensor_value_by_id(frame[i].sensor_readings, sensor_id)
         IN  IF v.exc # "" THEN v
             ELSE LET rest == extract_column(frame, sensor_id, i + 1)
                  IN  IF rest.exc # "" THEN rest
                      ELSE Returned(<<v.val>> \o rest.val)

\* Series > scalar and Series < scalar: False where the value is None/NaN.
series_gt(v, x) == v # None /\ v[1] > x
series_lt(v, x) == v # None /\ v[1] < x

\* (a slip: a missing value counted as beyond the thresholds)
classify_missing_as_on(v, positive_threshold, negative_threshold) ==
    v = None \/ v[1] > positive_threshold \/ v[1] < negative_threshold

\* data['ON'] = (sensor_value > positive_threshold) | (sensor_value < negative_threshold)
classify(v, positive_threshold, negative_threshold) ==
    series_gt(v, positive_threshold) \/ series_lt(v, negative_threshold)

on_column(values, positive_threshold, negative_threshold) ==
    [i \in 1..Len(values) |-> classify(values[i], positive_threshold, negative_threshold)]

\* ------------------------------------------- Policy B (main.py), in minutes
SecondsPerMinute == 60

\* round(n / d) for d > 0: Python rounds a half to the even neighbour.
py_round_div(n, d) ==
    LET q == n \div d
        r == n % d
    IN  IF 2 * r < d THEN q
        ELSE IF 2 * r > d THEN q + 1
        ELSE IF q % 2 = 0 THEN q ELSE q + 1

\* (a slip: the last row is taken to last a whole window)
time_diff_last_full(frame, order) ==
    [i \in 1..Len(order) |->
        IF i = Len(order) THEN Some(15 * 60)
        ELSE Some(frame[order[i + 1]].time - frame[order[i]].time)]

\* time_diff of the sorted rows: next_time - time, where shift(-1) leaves the
\* last row without a next_time (NaT, so NaN); then the last row is set to 0.
time_diff_B(frame, order) ==
    [i \in 1..Len(order) |->
        IF i = Len(order) THEN Some(0)
        ELSE Some(frame[order[i + 1]].time - frame[order[i]].time)]

\* The loop over the sorted rows: an ON row adds its time_diff unless it is NaN.
RECURSIVE sum_on_B(_, _, _, _)
sum_on_B(ON, order, time_diff, i) ==
    IF i > Len(order) THEN 0
    ELSE (IF ON[order[i]] /\ time_diff[i] # None THEN time_diff[i][1] ELSE 0)
            + sum_on_B(ON, order, time_diff, i + 1)

total_on_seconds_B(frame, ON, order) ==
    IF Len(frame) > 1 /\ (\E i \in 1..Len(frame) : ON[i])
    THEN sum_on_B(ON, order, time_diff_B(frame, order), 1)
    ELSE 0

\* (a slip: whole minutes only, total_on_seconds // 60)
total_on_minutes_floor(total_on_seconds) == total_on_seconds \div SecondsPerMinute

\* total_on_minutes = round(total_on_seconds / 60)
total_on_minutes(total_on_seconds) == py_round_div(total_on_seconds, SecondsPerMinute)

\* The time and ON columns of the frame, its rows taken in the given order.
columns_in_order(frame, ON, order) ==
    [k \in 1..Len(order) |-> [time |-> frame[order[k]].time, ON |-> ON[order[k]]]]

identity_order(frame) == [k \in 1..Len(frame) |-> k]

\* process_vibration_data of main.py.  `order` is what sort_values makes of the
\* frame, when the call comes to sort it.  The record keeps, beside the outcome
\* (exc, val), what the call computed on its way: the ON column, the time and
\* ON columns as the loop went through them, and total_on_seconds.
process_vibration_data_B(frame, sensor_id, positive_threshold, negative_threshold, order) ==
    IF Len(frame) = 0
    THEN [exc |-> "", val |-> 0, ON |-> <<>>, rows |-> <<>>, seconds |-> 0]
    ELSE LET col == extract_column(frame, sensor_id, 1)
         IN  IF col.exc # ""
             THEN [exc |-> col.exc, val |-> 0, ON |-> <<>>, rows |-> <<>>, seconds |-> 0]
             ELSE LET ON == on_column(col.val, positive_threshold, negative_threshold)
                      secs == total_on_seconds_B(frame, ON, order)
                      sorted == Len(frame) > 1 /\ (\E i \in 1..Len(frame) : ON[i])
                  IN  [exc |-> "", val |-> total_on_minutes(secs), ON |-> ON,
                       rows |-> columns_in_order(frame, ON,
                                    IF sorted THEN order ELSE identity_order(frame)),
                       seconds |-> secs]

\* --------------------------------------- Policy C (runonce.py), per day
\* 15 * 60: the cap on one diff
MaxDiffSeconds == 15 * 60
HoursDivisor == 1440

RECURSIVE GCD(_, _)
GCD(a, b) == IF b = 0 THEN a ELSE GCD(b, a % b)

\* n / d as an exact fraction in lowest terms (n >= 0, d > 0)
Fraction(n, d) == LET g == GCD(n, d) IN [num |-> n \div g, den |-> d \div g]

Min(a, b) == IF a <= b THEN a ELSE b

\* (a slip: seconds to hours by 3600)
total_on_hours_by_3600(total_on_seconds) == Fraction(total_on_seconds, 3600)

\* total_on_hours = total_on_seconds / 1440
total_on_hours(total_on_seconds) == Fraction(total_on_seconds, HoursDivisor)

\* groupby("date") then sort_values("time"): the rows of one date, sorted.
day_rows(frame, order, date) ==
    SelectSeq(order, LAMBDA k : DateOf(frame[k].time) = date)

\* next_time of the day's sorted rows: shift(-1), then the last row's
\* next_time is set to its own time.
next_time_C(frame, rows) ==
    [i \in 1..Len(rows) |->
        IF i = Len(rows) THEN frame[rows[i]].time ELSE frame[rows[i + 1]].time]

\* (a slip: the diff taken as it is)
uncapped_diff(time_diff) == time_diff

\* diff = min(row["time_diff"], 15 * 60)
capped_diff(time_diff) == Min(time_diff, MaxDiffSeconds)

\* The loop over one day's rows: an ON row adds its capped time_diff.
RECURSIVE sum_on_C(_, _, _, _, _)
sum_on_C(frame, ON, rows, next_time, i) ==
    IF i > Len(rows) THEN 0
    ELSE (IF ON[rows[i]]
          THEN capped_diff(next_time[i] - frame[rows[i]].time)
          ELSE 0)
            + sum_on_C(frame, ON, rows, next_time, i + 1)

total_on_seconds_C(frame, ON, order, date) ==
    LET rows == day_rows(frame, order, date)
    IN  sum_on_C(frame, ON, rows, next_time_C(frame, rows), 1)

\* The dates groupby("date") iterates over.
group_dates(frame) == {DateOf(frame[i].time) : i \in 1..Len(frame)}

daily_seconds(frame, ON, order) ==
    [date \in group_dates(frame) |-> total_on_seconds_C(frame, ON, order, date)]

\* results[date] = total_on_hours
daily_results(seconds) == [date \in DOMAIN seconds |-> total_on_hours(seconds[date])]

\* process_vibration_data of runonce.py: a map from date to hours.
process_vibration_data_C(frame, sensor_id, positive_threshold, negative_threshold, order) ==
    IF Len(frame) = 0
    THEN [exc |-> "", val |-> <<>>, ON |-> <<>>, rows |-> <<>>, seconds |-> <<>>]
    ELSE LET col == extract_column(frame, sensor_id, 1)
         IN  IF col.exc # ""
             THEN [exc |-> col.exc, val |-> <<>>, ON |-> <<>>, rows |-> <<>>, seconds |-> <<>>]
             ELSE LET ON == on_column(col.val, positive_threshold, negative_threshold)
                      secs == daily_seconds(frame, ON, order)
                  IN  [exc |-> "", val |-> daily_results(secs), ON |-> ON,
                       rows |-> columns_in_order(frame, ON, order), seconds |-> secs]

\* ------------------------------------------------------- device registry
\* type1_devices, reduced to one entry per kind of entry the code tells apart:
\* a device deployed on day 0, the device marked OFFLINE, a device deployed on
\* day 1 with another sensor; and two entries the code guards against, one
\* whose threshold is no number and one whose deployed_at is no date.
\* Thresholds are on the scale of the sensor values.
type1_devices ==
    << [device_id |-> "HFLI001", deployed_at |-> [valid |-> TRUE, day |-> 0],
        threshold |-> [kind |-> "number", x |-> 1], sensor |-> 6],
       [device_id |-> "JKFL001", deployed_at |-> [valid |-> TRUE, day |-> 1],
        threshold |-> [kind |-> "OFFLINE", x |-> 0], sensor |-> 6],
       [device_id |-> "BADTHRES", deployed_at |-> [valid |-> TRUE, day |-> 0],
        threshold |-> [kind |-> "text", x |-> 0], sensor |-> 6],
       [device_id |-> "BADDATE", deployed_at |-> [valid |-> FALSE, day |-> 0],
        threshold |-> [kind |-> "number", x |-> 1], sensor |-> 6],
       [device_id |-> "STMT002", deployed_at |-> [valid |-> TRUE, day |-> 1],
        threshold |-> [kind |-> "number", x |-> 1], sensor |-> 1] >>

\* float(device_config["threshold"])
threshold_float(th) ==
    IF th.kind = "number" THEN Returned(th.x) ELSE Raised("ValueError")

\* datetime.strptime(device_config["deployed_at"], "%Y-%m-%d"): midnight of the date
strptime(deployed_at) ==
    IF deployed_at.valid THEN Returned(deployed_at.day * SecondsPerDay)
    ELSE Raised("ValueError")

\* ------------------------------------------------- machine_metrics (store)
\* The table is a sequence of rows [device_id, metric_type, metric_date,
\* metric_data]; a row's metric_id is its position.  metric_data is an exact
\* fraction: minutes from main.py, hours from runonce.py.
Whole(n) == [num |-> n, den |-> 1]

\* existing[1] + metric_data
fraction_add(a, b) == Fraction(a.num * b.den + b.num * a.den, a.den * b.den)

\* SELECT ... WHERE device_id = %s AND metric_type = %s AND metric_date = ...;
\* fetchone(): the metric_id of a matching row (the first), or None.
select_existing(table, device_id, metric_type, date) ==
    LET ids == {i \in 1..Len(table) :
                    /\ table[i].device_id = device_id
                    /\ table[i].metric_type = metric_type
                    /\ table[i].metric_date = date}
    IN  IF ids = {} THEN None
        ELSE Some(CHOOSE i \in ids : \A j \in ids : i <= j)

new_row(device_id, metric_type, date, metric_data) ==
    [device_id |-> device_id, metric_type |-> metric_type,
     metric_date |-> date, metric_data |-> metric_data]

\* (a slip: the new value replaces the stored one)
update_replacing(table, device_id, metric_type, metric_data, today) ==
    LET existing == select_existing(table, device_id, metric_type, today)
    IN  IF existing # None
        THEN [table EXCEPT ![existing[1]].metric_data = metric_data]
        ELSE Append(table, new_row(device_id, metric_type, today, metric_data))

\* update_machine_metrics of main.py, committed: today is CURRENT_DATE.
update_committed(table, device_id, metric_type, metric_data, today) ==
    LET existing == select_existing(table, device_id, metric_type, today)
    IN  IF existing # None
        THEN [table EXCEPT ![existing[1]].metric_data =
                                fraction_add(table[existing[1]].metric_data, metric_data)]
        ELSE Append(table, new_row(device_id, metric_type, today, metric_data))

\* update_machine_metrics: a psycopg.Error (db_ok false) is logged, nothing is
\* committed and nothing is raised.
update_machine_metrics(table, device_id, metric_type, metric_data, today, db_ok) ==
    IF db_ok THEN update_committed(table, device_id, metric_type, metric_data, today)
    ELSE table

\* (a slip: no look for an existing entry)
insert_unchecked(table, device_id, metric_type, date, metric_data) ==
    Append(table, new_row(device_id, metric_type, date, metric_data))

\* insert_machine_metrics of runonce.py, committed: an existing entry is skipped.
insert_committed(table, device_id, metric_type, date, metric_data) ==
    IF select_existing(table, device_id, metric_type, date) # None THEN table
    ELSE Append(table, new_row(device_id, metric_type, date, metric_data))

insert_machine_metrics(table, device_id, metric_type, date, metric_data, db_ok) ==
    IF db_ok THEN insert_committed(table, device_id, metric_type, date, metric_data)
    ELSE table

\* ------------------------------------------------ process_device (main.py)
\* timedelta(minutes=15)
WindowSeconds == 15 * 60

\* (a slip: the window is not adjusted to the deployment date)
window_start_unclamped(end_time, deployed_date) == end_time - WindowSeconds

\* The start of the fetch window: end_time - 15 min, or midnight of the
\* deployment date when that falls on an earlier date.
window_start(end_time, deployed_date) ==
    LET start_time == end_time - WindowSeconds
    IN  IF DateOf(start_time) < DateOf(deployed_date)
        THEN DateOf(deployed_date) * SecondsPerDay
        ELSE start_time

\* (a slip: <= for <)
not_yet_deployed_or_today(end_time, deployed_date) ==
    DateOf(end_time) <= DateOf(deployed_date)

\* if end_time.date() < deployed_date.date(): skip
not_yet_deployed(end_time, deployed_date) == DateOf(end_time) < DateOf(deployed_date)

\* What one call did: the outcome (the log line it ended with, or "exception"
\* when it raised exc), the fetch window if it came to fetch, the duration it
\* computed, and the table as it left it.
CallResult(outcome, exc, fetched, start, end, value, table) ==
    [outcome |-> outcome, exc |-> exc, fetched |-> fetched, start |-> start,
     end |-> end, value |-> value, table |-> table]

\* (a slip: no test of on_minutes)
persist_minutes_unguarded(table, device_id, on_minutes, today, db_ok) ==
    update_machine_metrics(table, device_id, "op_hours", Whole(on_minutes), today, db_ok)

\* if on_minutes > 0: update_machine_metrics(...) else: log
persist_minutes(table, device_id, on_minutes, today, db_ok) ==
    IF on_minutes > 0
    THEN update_machine_metrics(table, device_id, "op_hours", Whole(on_minutes), today, db_ok)
    ELSE table

\* process_device(device_id, device_config) at time `now`, where the fetch
\* returns `frame` (empty also when the fetch failed), sort_values orders it by
\* `order`, and the write to the store succeeds iff db_ok.
process_device(config, now, table, frame, order, db_ok) ==
    IF config.threshold.kind = "OFFLINE"
    THEN CallResult("offline", "", FALSE, 0, 0, Whole(0), table)
    ELSE IF threshold_float(config.threshold).exc # ""
    THEN CallResult("invalid_threshold", "", FALSE, 0, 0, Whole(0), table)
    ELSE IF strptime(config.deployed_at).exc # ""
    THEN CallResult("invalid_date", "", FALSE, 0, 0, Whole(0), table)
    ELSE LET thr == threshold_float(config.threshold).val
             deployed_date == strptime(config.deployed_at).val
             end_time == now
             start_time == window_start(end_time, deployed_date)
         IN  IF not_yet_deployed(end_time, deployed_date)
             THEN CallResult("not_deployed", "", FALSE, end_time - WindowSeconds, end_time,
                             Whole(0), table)
             ELSE IF Len(frame) = 0
             THEN CallResult("no_data", "", TRUE, start_time, end_time, Whole(0), table)
             ELSE LET r == process_vibration_data_B(frame, config.sensor, thr, -thr, order)
                  IN  IF r.exc # ""
                      THEN CallResult("exception", r.exc, TRUE, start_time, end_time,
                                      Whole(0), table)
                      ELSE CallResult(
                              IF r.val > 0
                              THEN (IF db_ok THEN "persisted" ELSE "write_failed")
                              ELSE "not_on",
                              "", TRUE, start_time, end_time, Whole(r.val),
                              persist_minutes(table, config.device_id, r.val,
                                              DateOf(now), db_ok))

\* --------------------------------- process_device_historical (runonce.py)
\* for date, hours in daily_metrics.items(): if hours > 0: insert_machine_metrics(...)
\* over the dates in ascending order; the insert of a date in db_failed fails.
RECURSIVE insert_days(_, _, _, _, _)
insert_days(table, device_id, daily, dates, db_failed) ==
    IF dates = {} THEN table
    ELSE LET date == CHOOSE d \in dates : \A e \in dates : d <= e
             after == IF daily[date].num > 0
                      THEN insert_machine_metrics(table, device_id, "op_hours", date,
                                                  daily[date], date \notin db_failed)
                      ELSE table
         IN  insert_days(after, device_id, daily, dates \ {date}, db_failed)

process_device_historical(config, table, frame, order, db_failed) ==
    IF config.threshold.kind = "OFFLINE"
    THEN CallResult("offline", "", FALSE, 0, 0, <<>>, table)
    ELSE IF threshold_float(config.threshold).exc # ""
    THEN CallResult("invalid_threshold", "", FALSE, 0, 0, <<>>, table)
    ELSE IF strptime(config.deployed_at).exc # ""
    THEN CallResult("invalid_date", "", FALSE, 0, 0, <<>>, table)
    ELSE LET thr == threshold_float(config.threshold).val
             deployed_date == strptime(config.deployed_at).val
         IN  IF Len(frame) = 0
             THEN CallResult("no_data", "", TRUE, deployed_date, 0, <<>>, table)
             ELSE LET r == process_vibration_data_C(frame, config.sensor, thr, -thr, order)
                  IN  IF r.exc # ""
                      THEN CallResult("exception", r.exc, TRUE, deployed_date, 0, <<>>, table)
                      ELSE CallResult("processed", "", TRUE, deployed_date, 0, r.val,
                                      insert_days(table, config.device_id, r.val,
                                                  DOMAIN r.val, db_failed))

\* ================================================================== state
VARIABLES
    \* one call of extract_sensor_value_by_id
    sensor_readings,    \* its payload argument
    sensor_id,          \* its sensor_id argument (also that of the calls below)
    extracted,          \* None before the call, Some(outcome) after it
    \* one call of each process_vibration_data
    data,               \* the frame argument
    threshold,          \* the calls pass (threshold, -threshold)
    on_minutes,         \* None, or Some(what main.py's call came to)
    daily_metrics,      \* None, or Some(what runonce.py's call came to)
    \* the service: passes over the registry against the store
    now,                \* the clock (datetime.now(), CURRENT_DATE)
    machine_metrics,    \* the machine_metrics table
    job,                \* the pass under way: its kind, the position in the
                        \* registry of the next device, and its end_date
    attempted,          \* the outcome of every device the pass has gone through
    last,               \* what the latest call of process_device(_historical) did
    runs                \* passes started so far

calls == <<sensor_readings, sensor_id, extracted, data, threshold, on_minutes, daily_metrics>>
service == <<now, machine_metrics, job, attempted, last, runs>>
vars == <<calls, service>>

\* A payload holding one numeric channel, one without channels, and a NULL column.
ChannelPayload(sid, n) ==
    [form |-> "object", valid |-> TRUE,
     doc |-> [kind |-> "list", size |-> 0,
              items |-> <<[kind |-> "dict", sensor_id |-> Some(sid),
                           value |-> [kind |-> "num", n |-> n]]>>]]
EmptyPayload ==
    [form |-> "object", valid |-> TRUE, doc |-> [kind |-> "list", size |-> 0, items |-> <<>>]]
NullPayload ==
    [form |-> "object", valid |-> TRUE, doc |-> [kind |-> "null", size |-> 0, items |-> <<>>]]

\* ------------------------------------------- specification: one extraction
NoExtraction ==
    /\ sensor_readings = EmptyPayload
    /\ extracted = None

NoAggregation ==
    /\ data = <<>>
    /\ threshold = 1
    /\ on_minutes = None
    /\ daily_metrics = None

\* The service before its first pass: an empty table, the clock at the
\* earliest instant.
Idle == [kind |-> "idle", idx |-> 0, end_date |-> None]
NoCall ==
    [device_id |-> "", outcome |-> "none", exc |-> "", fetched |-> FALSE,
     start |-> 0, end |-> 0, value |-> Whole(0)]

ServiceStart ==
    /\ now = 600
    /\ machine_metrics = <<>>
    /\ job = Idle
    /\ attempted = <<>>
    /\ last = NoCall
    /\ runs = 0

InitExtract ==
    /\ sensor_readings \in Payloads(SeqsUpTo(Entries, MaxItems))
    /\ sensor_id \in SampleSensorIds
    /\ extracted = None
    /\ NoAggregation
    /\ ServiceStart

Extract ==
    /\ extracted = None
    /\ extracted' = Some(extract_sensor_value_by_id(sensor_readings, sensor_id))
    /\ UNCHANGED <<sensor_readings, sensor_id, data, threshold, on_minutes, daily_metrics>>
    /\ UNCHANGED service

NextExtract == Extract

SpecExtract == InitExtract /\ [][NextExtract]_vars

\* ------------------------------------- specification: one aggregation each
\* Timestamps of the sample frames: on day 0, gaps of 30 s, of 60 s (twice in a
\* row) and of 2000 s, and the last second of the day; then midnight of day 1.
SampleTimes == {0, 30, 90, 150, 2150, 86399, 86400}
SamplePayloads == {ChannelPayload(6, 2), ChannelPayload(6, -2), EmptyPayload}
SampleThresholds == {1, 2}

Rows == [time : SampleTimes, sensor_readings : SamplePayloads]

\* What a fetch can return: rows in the order of their time.
Frames == {f \in SeqsUpTo(Rows, MaxLen) : IsSortedByTime(f)}

InitAggregate ==
    /\ data \in Frames
    /\ threshold \in SampleThresholds
    /\ sensor_id = 6
    /\ on_minutes = None
    /\ daily_metrics = None
    /\ NoExtraction
    /\ ServiceStart

\* on_minutes = process_vibration_data(data, sensor_id, threshold, -threshold)   (main.py)
RunPolicyB ==
    /\ on_minutes = None
    /\ \E order \in SortOrders(data) :
          on_minutes' = Some(process_vibration_data_B(data, sensor_id, threshold, -threshold, order))
    /\ UNCHANGED <<sensor_readings, sensor_id, extracted, data, threshold, daily_metrics>>
    /\ UNCHANGED service

\* daily_metrics = process_vibration_data(data, sensor_id, threshold, -threshold)   (runonce.py)
RunPolicyC ==
    /\ daily_metrics = None
    /\ \E order \in SortOrders(data) :
          daily_metrics' = Some(process_vibration_data_C(data, sensor_id, threshold, -threshold, order))
    /\ UNCHANGED <<sensor_readings, sensor_id, extracted, data, threshold, on_minutes>>
    /\ UNCHANGED service

NextAggregate == RunPolicyB \/ RunPolicyC

SpecAggregate == InitAggregate /\ [][NextAggregate]_vars

\* ---------------------------------------------- specification: the service
\* The instants the clock takes: 00:10 and noon of day 0, midnight and noon of day 1.
SampleInstants == {600, 43200, 86400, 129600}

\* The rows of a frame: those of `times`, each with its payload, by time.
RECURSIVE FrameOf(_, _)
FrameOf(times, payload) ==
    IF times = {} THEN <<>>
    ELSE LET t == CHOOSE x \in times : \A y \in times : x <= y
         IN  <<[time |-> t, sensor_readings |-> payload[t]]>>
                \o FrameOf(times \ {t}, payload)

FramesOver(times, payloads) ==
    UNION {{FrameOf(T, f) : f \in [T -> payloads]} : T \in SUBSET times}

\* What the table device_readings may hold for a device: a channel of its
\* sensor beyond the threshold, no channel, a NULL column.
DevicePayloads(config) == {ChannelPayload(config.sensor, 2), EmptyPayload, NullPayload}
\* The rows the backfill is given are of the first and the last kind.
BackfillPayloads(config) == {ChannelPayload(config.sensor, 2), NullPayload}

\* fetch_device_data(device_id, start_time, end_time): rows with time BETWEEN
\* start_time AND end_time, ORDER BY time; the empty frame when there are none
\* and when the query fails.  The rows are 15 min, 7 min and 0 min old.
PeriodicOffsets == {0, 420, 900}
fetch_device_data(config, start_time, end_time) ==
    FramesOver({t \in {end_time - o : o \in PeriodicOffsets} :
                    start_time <= t /\ t <= end_time},
               DevicePayloads(config))

\* fetch_all_device_data(device_id, start_date, end_date): rows with
\* time >= start_date, and time <= end_date when one is given, ORDER BY time;
\* the empty frame when there are none and when the query fails.  The rows are
\* of 11:45, 11:55 and 12:00 of day 0 and of 11:55 and 12:00 of day 1.
HistoricalTimes == {42300, 42900, 43200, 129300, 129600}
fetch_all_device_data(config, start_date, end_date) ==
    FramesOver({t \in HistoricalTimes :
                    start_date <= t /\ (end_date = None \/ t <= end_date[1])},
               BackfillPayloads(config))

\* The frames a call may be given: those of its fetch, or none when the call
\* returns before it fetches.
FramesForPeriodic(config) ==
    IF threshold_float(config.threshold).exc = "" /\ strptime(config.deployed_at).exc = ""
    THEN fetch_device_data(config,
                           window_start(now, strptime(config.deployed_at).val), now)
    ELSE {<<>>}

FramesForHistorical(config, end_date) ==
    IF threshold_float(config.threshold).exc = "" /\ strptime(config.deployed_at).exc = ""
    THEN fetch_all_device_data(config, strptime(config.deployed_at).val, end_date)
    ELSE {<<>>}

CallRecord(config, r) ==
    [device_id |-> config.device_id, outcome |-> r.outcome, exc |-> r.exc,
     fetched |-> r.fetched, start |-> r.start, end |-> r.end, value |-> r.value]

\* (a slip: no try around the call)
caught_by_nothing(exc) == FALSE

\* except Exception as e: logger.error(...) -- every exception the call can
\* raise is an Exception, and the loop goes on.
caught_by_pass(exc) == TRUE

\* One iteration of the for loop of process_all_devices(_historical), the call
\* having come to r: the table is as the call left it, and the loop moves to
\* the next device unless the exception escapes it.
LoopStep(config, r) ==
    /\ machine_metrics' = r.table
    /\ last' = CallRecord(config, r)
    /\ attempted' = Append(attempted, r.outcome)
    /\ job' = IF r.exc = "" \/ caught_by_pass(r.exc)
              THEN [job EXCEPT !.idx = job.idx + 1]
              ELSE [job EXCEPT !.kind = "crashed"]

\* Time passes.
Tick ==
    /\ \E t \in SampleInstants : t > now /\ now' = t
    /\ UNCHANGED <<calls, machine_metrics, job, attempted, last, runs>>

\* The scheduler (or the start of main.py) calls process_all_devices.
StartPeriodic ==
    /\ job.kind = "idle"
    /\ runs < MaxRuns
    /\ runs' = runs + 1
    /\ job' = [kind |-> "periodic", idx |-> 1, end_date |-> None]
    /\ attempted' = <<>>
    /\ UNCHANGED <<calls, now, machine_metrics, last>>

\* try: process_device(device_id, config) except Exception: ...
StepPeriodic ==
    /\ job.kind = "periodic"
    /\ job.idx <= Len(type1_devices)
    /\ LET config == type1_devices[job.idx]
       IN  \E frame \in FramesForPeriodic(config), db_ok \in BOOLEAN :
             \E order \in SortOrders(frame) :
                LoopStep(config,
                         process_device(config, now, machine_metrics, frame, order, db_ok))
    /\ UNCHANGED <<calls, now, runs>>

\* "Completed device metrics processing job"
FinishPass ==
    /\ job.kind \in {"periodic", "historical"}
    /\ job.idx > Len(type1_devices)
    /\ job' = Idle
    /\ UNCHANGED <<calls, now, machine_metrics, attempted, last, runs>>

\* runonce.py is run, with or without --end-date (midnight of day 1).
StartHistorical ==
    /\ job.kind = "idle"
    /\ runs < MaxRuns
    /\ runs' = runs + 1
    /\ \E end_date \in {None, Some(SecondsPerDay)} :
          job' = [kind |-> "historical", idx |-> 1, end_date |-> end_date]
    /\ attempted' = <<>>
    /\ UNCHANGED <<calls, now, machine_metrics, last>>

\* try: process_device_historical(device_id, config, end_date) except Exception: ...
StepHistorical ==
    /\ job.kind = "historical"
    /\ job.idx <= Len(type1_devices)
    /\ LET config == type1_devices[job.idx]
       IN  \E frame \in FramesForHistorical(config, job.end_date) :
             \E order \in SortOrders(frame), db_failed \in SUBSET group_dates(frame) :
                LoopStep(config,
                         process_device_historical(config, machine_metrics, frame,
                                                   order, db_failed))
    /\ UNCHANGED <<calls, now, runs>>

InitService ==
    /\ ServiceStart
    /\ NoExtraction
    /\ NoAggregation
    /\ sensor_id = 6

\* The periodic service alone.
NextPeriodic == Tick \/ StartPeriodic \/ StepPeriodic \/ FinishPass
SpecPeriodic == InitService /\ [][NextPeriodic]_vars

\* The periodic service and the backfill, one pass at a time, on one store.
NextService ==
    Tick \/ StartPeriodic \/ StepPeriodic \/ StartHistorical \/ StepHistorical \/ FinishPass
SpecService == InitService /\ [][NextService]_vars

\* ================================================= claims on the aggregation
\* The sum of f[x] over the finite set S.
RECURSIVE SumOver(_, _)
SumOver(S, f) ==
    IF S = {} THEN 0
    ELSE LET x == CHOOSE y \in S : TRUE IN f[x] + SumOver(S \ {x}, f)

\* The rows of the frame in the ascending order the call worked on.
SortedTime(r) == [k \in 1..Len(r.rows) |-> r.rows[k].time]
SortedOn(r) == [k \in 1..Len(r.rows) |-> r.rows[k].ON]

\* Policy B as the specification states it: every reading but the last adds
\* the gap to the next reading when it is ON.
StatedSecondsB(times, on) ==
    SumOver({k \in 1..(Len(times) - 1) : on[k]},
            [k \in 1..(Len(times) - 1) |-> times[k + 1] - times[k]])

\* m is round(s / 60): the nearest integer, the even one of two.
IsRoundedMinutes(m, s) ==
    /\ 60 * m - s <= 30
    /\ s - 60 * m <= 30
    /\ (60 * m - s = 30 \/ s - 60 * m = 30) => m % 2 = 0

\* C1: whenever main.py's process_vibration_data returns, its total ON seconds
\* are the sum, over every reading but the last in ascending time order, of the
\* gap to the next reading where the reading is ON; a frame of at most one row
\* gives 0; the minutes returned are round(seconds / 60); ON, OFF, ON at 60 s
\* spacing gives 60 s and 1 minute.
C1_PolicyB_NextReadingDelta ==
    (on_minutes # None /\ on_minutes[1].exc = "") =>
        LET r == on_minutes[1]
            times == SortedTime(r)
            on == SortedOn(r)
        IN  /\ r.seconds = (IF Len(data) = 0 THEN 0 ELSE StatedSecondsB(times, on))
            /\ Len(data) <= 1 => (r.seconds = 0 /\ r.val = 0)
            /\ IsRoundedMinutes(r.val, r.seconds)
            /\ (/\ Len(data) = 3
                /\ r.ON = <<TRUE, FALSE, TRUE>>
                /\ data[2].time - data[1].time = 60
                /\ data[3].time - data[2].time = 60) => (r.seconds = 60 /\ r.val = 1)

\* ON, OFF, ON at 60 s spacing has been aggregated: 60 s, 1 minute.
C1_Witness ==
    /\ on_minutes # None
    /\ on_minutes[1].exc = ""
    /\ Len(data) = 3
    /\ on_minutes[1].ON = <<TRUE, FALSE, TRUE>>
    /\ <<data[1].time, data[2].time, data[3].time>> = <<30, 90, 150>>
    /\ on_minutes[1].val = 1

\* Policy C as the specification states it, for one date: an ON reading adds
\* min(gap to the next reading, 900) when the next reading is of the same date.
StatedSecondsC(times, on, date) ==
    SumOver({k \in 1..(Len(times) - 1) :
                on[k] /\ DateOf(times[k]) = date /\ DateOf(times[k + 1]) = date},
            [k \in 1..(Len(times) - 1) |->
                IF times[k + 1] - times[k] < 900 THEN times[k + 1] - times[k] ELSE 900])

InputDates == {DateOf(data[i].time) : i \in 1..Len(data)}

StatedOn(row) ==
    LET v == extract_sensor_value_by_id(row.sensor_readings, sensor_id).val
    IN  v # None /\ (v[1] > threshold \/ v[1] < -threshold)

StatedOnColumn == [i \in 1..Len(data) |-> StatedOn(data[i])]

AllExtracted ==
    \A i \in 1..Len(data) :
        extract_sensor_value_by_id(data[i].sensor_readings, sensor_id).exc = ""

\* C9: in both files the classification never raises (the call returns whenever
\* every extraction returned), a reading is ON iff its channel value is present
\* and (value > p or value < -p), a reading without a value is OFF, and the ON
\* seconds of Policy B and Policy C are those of the readings so classified, so
\* a reading without a value adds nothing.
C9_ClassificationTotal ==
    /\ (on_minutes # None /\ AllExtracted) =>
            LET r == on_minutes[1]
            IN  /\ r.exc = ""
                /\ Len(data) > 0 => r.ON = StatedOnColumn
                /\ \E o \in SortOrders(data) :
                      r.seconds =
                        StatedSecondsB([k \in 1..Len(data) |-> data[o[k]].time],
                                       [k \in 1..Len(data) |-> StatedOn(data[o[k]])])
    /\ (daily_metrics # None /\ AllExtracted) =>
            LET r == daily_metrics[1]
            IN  /\ r.exc = ""
                /\ Len(data) > 0 => r.ON = StatedOnColumn
                /\ \E o \in SortOrders(data) :
                      \A date \in InputDates :
                          r.seconds[date] =
                            StatedSecondsC([k \in 1..Len(data) |-> data[o[k]].time],
                                           [k \in 1..Len(data) |-> StatedOn(data[o[k]])],
                                           date)

\* Both calls went over a frame whose first reading has no channel value and
\* is followed 60 s later by an ON reading and a third one: the gap after the
\* first reading is not counted.
C9_Witness ==
    /\ on_minutes # None
    /\ daily_metrics # None
    /\ Len(data) = 3
    /\ <<data[1].time, data[2].time, data[3].time>> = <<30, 90, 150>>
    /\ data[1].sensor_readings = EmptyPayload
    /\ on_minutes[1].ON = <<FALSE, TRUE, FALSE>>
    /\ on_minutes[1].seconds = 60
    /\ daily_metrics[1].ON = <<FALSE, TRUE, FALSE>>
    /\ daily_metrics[1].seconds[0] = 60

\* =================================================== claim on the extraction
\* C6: extract_sensor_value_by_id never raises: whatever the payload, the call
\* returns, None or the float.
C6_ExtractNeverRaises ==
    extracted # None => extracted[1].exc = ""

\* ==================================================== claims on the service
RowsOf(table, device_id, date) ==
    {i \in 1..Len(table) :
        /\ table[i].device_id = device_id
        /\ table[i].metric_type = "op_hours"
        /\ table[i].metric_date = date}

OneRowPerKey(table) ==
    \A i, j \in 1..Len(table) :
        (/\ table[i].device_id = table[j].device_id
         /\ table[i].metric_type = table[j].metric_type
         /\ table[i].metric_date = table[j].metric_date) => i = j

ConfigOf(device_id) ==
    type1_devices[CHOOSE i \in 1..Len(type1_devices) :
                        type1_devices[i].device_id = device_id]

\* A step in which one call of process_device(_historical) ran to its end.
CallCompleted == Len(attempted') = Len(attempted) + 1

\* A backfill call leaves every row it found as it was, and adds rows only
\* for dates that had none.
BackfillInsertsOrSkips ==
    (CallCompleted /\ job.kind = "historical") =>
        /\ Len(machine_metrics') >= Len(machine_metrics)
        /\ \A i \in 1..Len(machine_metrics) : machine_metrics'[i] = machine_metrics[i]
        /\ \A i \in (Len(machine_metrics) + 1)..Len(machine_metrics') :
              /\ machine_metrics'[i].device_id = last'.device_id
              /\ RowsOf(machine_metrics, last'.device_id,
                        machine_metrics'[i].metric_date) = {}

\* C4: the backfill is idempotent: whatever the runs, the table never holds two
\* rows of one (device, metric kind, date), and a run's insert for a date
\* that has a row changes nothing: every row a backfill call finds is left as
\* it was.
C4_BackfillIdempotent ==
    /\ []OneRowPerKey(machine_metrics)
    /\ [][BackfillInsertsOrSkips]_vars

\* A second backfill run came to 5/8 h for HFLI001 on day 0, a date for which
\* the first run had stored 5/24 h: the row is still the only one, and as it was.
C4_Witness ==
    /\ runs = 2
    /\ last.outcome = "processed"
    /\ last.device_id = "HFLI001"
    /\ 0 \in DOMAIN last.value
    /\ last.value[0] = [num |-> 5, den |-> 8]
    /\ RowsOf(machine_metrics, "HFLI001", 0) = {1}
    /\ machine_metrics[1].metric_data = [num |-> 5, den |-> 24]

\* The minutes (a whole number) the table holds for a device and a date.
TotalMinutes(table, device_id, date) ==
    SumOver(RowsOf(table, device_id, date),
            [i \in 1..Len(table) |-> table[i].metric_data.num])

\* What a periodic call adds to today's record of its device: its on_minutes
\* when it wrote them, nothing otherwise.
PeriodicCallAdds ==
    CallCompleted =>
        LET d == last'.device_id
            today == DateOf(now)
            m == IF last'.outcome = "persisted" THEN last'.value.num ELSE 0
            before == RowsOf(machine_metrics, d, today)
        IN  /\ TotalMinutes(machine_metrics', d, today)
                    = TotalMinutes(machine_metrics, d, today) + m
            /\ Cardinality(RowsOf(machine_metrics', d, today)) <= 1
            /\ (before = {} /\ m > 0) => Len(machine_metrics') = Len(machine_metrics) + 1
            /\ (before # {} \/ m = 0) => Len(machine_metrics') = Len(machine_metrics)
            /\ \A i \in 1..Len(machine_metrics) :
                  i \notin before => machine_metrics'[i] = machine_metrics[i]

\* C5: over any sequence of periodic runs, the table holds at most one row per
\* (device, op_hours, day), and every call that writes adds its minutes to the
\* day's record of its device: the first one inserts the row, a later one adds
\* to the value the row has, and no other row changes; so the record is the
\* sum of the contributions written (8 then 7 gives 15).
C5_PeriodicAdditive ==
    /\ [](/\ OneRowPerKey(machine_metrics)
          /\ \A i \in 1..Len(machine_metrics) : machine_metrics[i].metric_data.den = 1)
    /\ [][PeriodicCallAdds]_vars

\* Two runs on day 0 for HFLI001, the second one of 7 minutes: the one record holds 15.
C5_Witness ==
    /\ runs = 2
    /\ last.device_id = "HFLI001"
    /\ last.outcome = "persisted"
    /\ last.value = Whole(7)
    /\ Len(machine_metrics) = 1
    /\ machine_metrics[1] = new_row("HFLI001", "op_hours", 0, Whole(15))

\* A call leaves the rows of the other devices as they were.
OtherDevicesUntouched ==
    CallCompleted =>
        /\ Len(machine_metrics') >= Len(machine_metrics)
        /\ \A i \in 1..Len(machine_metrics) :
              machine_metrics[i].device_id # last'.device_id
                    => machine_metrics'[i] = machine_metrics[i]
        /\ \A i \in (Len(machine_metrics) + 1)..Len(machine_metrics') :
              machine_metrics'[i].device_id = last'.device_id

\* A pass under way has gone through every device before its position, and
\* can go on: to the next device, or to its end.
PassGoesOn ==
    /\ job.kind # "crashed"
    /\ job.kind \in {"periodic", "historical"} =>
          /\ Len(attempted) = job.idx - 1
          /\ job.idx <= Len(type1_devices) + 1
          /\ job.kind = "periodic" /\ job.idx <= Len(type1_devices) => ENABLED StepPeriodic
          /\ job.kind = "historical" /\ job.idx <= Len(type1_devices) => ENABLED StepHistorical
          /\ job.idx > Len(type1_devices) => ENABLED FinishPass
    /\ (job.kind = "idle" /\ runs > 0) => Len(attempted) = Len(type1_devices)

\* C7: in both passes the failure of one device (no data or a failed fetch, a
\* malformed configuration, a failed write, an exception raised in its
\* pipeline) does not end the pass: every device of the registry is gone
\* through, the pass reaches its end, and a call changes no row of another device.
C7_FailureDoesNotAbortPass ==
    /\ []PassGoesOn
    /\ [][OtherDevicesUntouched]_vars

\* A pass is over in which the first device raised, two had a malformed
\* configuration, and the last device was processed and persisted.
C7_Witness ==
    /\ job.kind = "idle"
    /\ Len(attempted) = 5
    /\ attempted[1] = "exception"
    /\ attempted[3] = "invalid_threshold"
    /\ attempted[4] = "invalid_date"
    /\ attempted[5] = "persisted"
    /\ \E i \in 1..Len(machine_metrics) : machine_metrics[i].device_id = "STMT002"

HasValidConfig(device_id) ==
    /\ ConfigOf(device_id).threshold.kind = "number"
    /\ ConfigOf(device_id).deployed_at.valid

\* C8: for a device that is not OFFLINE and whose configuration is valid:
\* process_device fetches when the deployment date is the date of now,
\* whatever the time, and skips without fetching when the deployment date is
\* later; nothing is ever persisted for a date before the deployment date.
C8_DeploymentBoundary ==
    /\ (last.outcome # "none" /\ HasValidConfig(last.device_id)) =>
          LET deployed == ConfigOf(last.device_id).deployed_at.day
          IN  /\ DateOf(last.end) = deployed =>
                    (last.fetched /\ last.outcome # "not_deployed")
              /\ DateOf(last.end) < deployed =>
                    (~last.fetched /\ last.outcome = "not_deployed")
    /\ \A i \in 1..Len(machine_metrics) :
          machine_metrics[i].metric_date
                >= ConfigOf(machine_metrics[i].device_id).deployed_at.day

\* STMT002, deployed on day 1, was processed at midnight of day 1 and fetched.
C8_Witness ==
    /\ last.device_id = "STMT002"
    /\ last.end = 86400
    /\ last.fetched
    /\ last.outcome = "no_data"

RowsPositive ==
    \A i \in 1..Len(machine_metrics) :
        machine_metrics[i].metric_data.num > 0 /\ machine_metrics[i].metric_data.den > 0

\* A call that computed no positive duration leaves the table as it was, and
\* a periodic call comes to write only with on_minutes > 0.
NoActivityNoWrite ==
    CallCompleted =>
        /\ (job.kind = "periodic" /\ last'.value.num <= 0)
                => machine_metrics' = machine_metrics
        /\ (job.kind = "periodic" /\ last'.outcome \in {"persisted", "write_failed"})
                => last'.value.num > 0
        /\ (job.kind = "historical"
                /\ \A date \in DOMAIN last'.value : last'.value[date].num <= 0)
                => machine_metrics' = machine_metrics
        /\ job.kind = "historical" =>
                \A i \in (Len(machine_metrics) + 1)..Len(machine_metrics') :
                    last'.value[machine_metrics'[i].metric_date].num > 0

\* C10: no non-positive duration is persisted: every row of the table holds a
\* value > 0, the periodic path writes only with on_minutes > 0, the backfill
\* inserts only dates with hours > 0, and a call without activity leaves the
\* table unchanged.
C10_NoNonPositivePersisted ==
    /\ []RowsPositive
    /\ [][NoActivityNoWrite]_vars

\* A periodic call found the device not ON while the table held a row: the
\* table has that row only.
C10_Witness ==
    /\ last.outcome = "not_on"
    /\ last.value = Whole(0)
    /\ Len(machine_metrics) = 1
    /\ machine_metrics[1].metric_data = Whole(7)

\* Midnight of the deployment date of a device, in seconds.
DeploymentMidnight(device_id) == ConfigOf(device_id).deployed_at.day * SecondsPerDay

\* The window of the last call, if it came to fetch, is [start, end] where
\* start is 15 minutes before end, or midnight of
\* the deployment date when 15 minutes earlier is on a date before it.
WindowClamped ==
    last.fetched =>
        LET naive == last.end - 15 * 60
            midnight == DeploymentMidnight(last.device_id)
        IN  /\ DateOf(naive) < DateOf(midnight) => last.start = midnight
            /\ DateOf(naive) >= DateOf(midnight) => last.start = naive
            /\ last.start >= midnight
            /\ last.start <= last.end

\* The window of a call that fetches ends at the time of the call.
WindowEndsNow == (CallCompleted /\ last'.fetched) => last'.end = now

\* C11: for every device process_device does not skip, the fetch window is
\* [start, now] with start = now - 15 min, except that start is exactly
\* midnight of the deployment date when the date of now - 15 min precedes the
\* deployment date; start is never before that midnight and never after now.
C11_WindowClamped ==
    /\ []WindowClamped
    /\ [][WindowEndsNow]_vars

\* HFLI001, deployed on day 0, was processed at 00:10 of day 0: the window
\* it fetched starts at midnight, not at 23:55 of the day before.
C11_Witness ==
    /\ last.device_id = "HFLI001"
    /\ last.fetched
    /\ last.end = 600
    /\ last.start = 0

\* The daily record of a device: the value of its row of the date, 0 without one.
RecordOf(table, device_id, date) ==
    IF RowsOf(table, device_id, date) = {} THEN Whole(0)
    ELSE table[CHOOSE i \in RowsOf(table, device_id, date) : TRUE].metric_data

\* One call of process_device: the window it fetched is no longer than 15
\* minutes, the minutes it computed are between 0 and 15 and no more than the
\* window holds (to the rounding), and the record of the day of its device
\* grows by between 0 and 15 (new - old, as fractions).
OneRunAddsAtMost15 ==
    (CallCompleted /\ job.kind = "periodic") =>
        LET old == RecordOf(machine_metrics, last'.device_id, DateOf(now))
            new == RecordOf(machine_metrics', last'.device_id, DateOf(now))
            added == new.num * old.den - old.num * new.den
        IN  /\ last'.fetched => last'.end - last'.start <= 15 * 60
            /\ last'.value.den = 1
            /\ 0 <= last'.value.num /\ last'.value.num <= 15
            /\ last'.fetched => 60 * last'.value.num - 30 <= last'.end - last'.start
            /\ 0 <= added /\ added <= 15 * old.den * new.den
            /\ \A date \in 0..DateOf(now) :
                  date # DateOf(now) =>
                      RecordOf(machine_metrics', last'.device_id, date)
                            = RecordOf(machine_metrics, last'.device_id, date)

\* C12: one run of process_device adds at least 0 and at most 15 minutes to
\* the daily record of the device: the readings it fetches lie in a window of
\* at most 15 minutes (also after the snap to deployment midnight), and the
\* ON seconds of Policy B are no more than the readings span.
C12_OneRunAtMost15Minutes == [][OneRunAddsAtMost15]_vars

\* A run at noon of day 0 found HFLI001 ON through the whole window, from the
\* row 15 minutes old to the row of now, and wrote 15 minutes.
C12_Witness ==
    /\ last.device_id = "HFLI001"
    /\ last.outcome = "persisted"
    /\ last.end - last.start = 15 * 60
    /\ last.value = Whole(15)
    /\ RecordOf(machine_metrics, "HFLI001", 0).num >= 15

=============================================================================
